---- MODULE Spec2Model ----
(***************************************************************************)
(* Model of SoftActorCritic_PyTorch/EnvironmentTetrapodVelocidad.py:       *)
(* the Environment class (reset, set_pos, get_pos, act, compute_reward,    *)
(* max_ret) and its reward / termination evaluator.                        *)
(*                                                                         *)
(* Numbers are exact rationals <<numerator, denominator>> in lowest terms  *)
(* with a positive denominator.  The two irrational ingredients of the     *)
(* code are approximated by rationals: np.pi by 22/7 and np.sqrt by the    *)
(* square root rounded down to a multiple of 1/100.                        *)
(***************************************************************************)
EXTENDS Integers, Sequences, FiniteSets, TLC

VARIABLES dest_pos,      \* self.dest_pos, fixed at construction
          heap,          \* the numpy arrays alive in the program, by address
          obsRef,        \* address of the array self.__obs refers to
          step,          \* self.__step (UNDEF while the attribute is absent)
          simObs,        \* observation most recently produced by the simulator
          retRef,        \* array the caller got from the last reset / set_pos
          retSnap,       \* value of that array at the moment it was returned
          nextRef,       \* array the caller got from the last act
          out,           \* value returned by the last call
          lastOp,        \* name of the last call
          obs_in,        \* evaluator argument obs (a batch of rows)
          next_in,       \* evaluator argument next_obs (a batch of rows)
          reward,        \* evaluator result: reward column
          end,           \* evaluator result: end column
          trace,         \* evaluator locals, one record per row
          batch,         \* argument of compute_reward (N+1 rows)
          batch_reward,  \* result of compute_reward
          step_reward,   \* rewards of the per-step evaluations of the pairs
          pc

vars == <<dest_pos, heap, obsRef, step, simObs, retRef, retSnap, nextRef, out,
          lastOp, obs_in, next_in, reward, end, trace, batch, batch_reward,
          step_reward, pc>>

----------------------------------------------------------------------------
(* Exact rational arithmetic *)

Abs(x) == IF x < 0 THEN -x ELSE x

RECURSIVE GCD(_, _)
GCD(a, b) == IF b = 0 THEN a ELSE GCD(b, a % b)

Rat(n, d) ==
  LET g == GCD(Abs(n), Abs(d))
      s == IF d < 0 THEN -1 ELSE 1
  IN  <<s * (n \div g), s * (d \div g)>>

I2R(x) == <<x, 1>>
Zero == <<0, 1>>
One == <<1, 1>>

RatNeg(a) == <<-a[1], a[2]>>
RatAbs(a) == <<Abs(a[1]), a[2]>>

RatAdd(a, b) ==
  LET g == GCD(a[2], b[2])
      l == (a[2] \div g) * b[2]
  IN  Rat(a[1] * (l \div a[2]) + b[1] * (l \div b[2]), l)

RatSub(a, b) == RatAdd(a, RatNeg(b))

RatMul(a, b) ==
  LET g1 == GCD(Abs(a[1]), b[2])
      g2 == GCD(Abs(b[1]), a[2])
  IN  Rat((a[1] \div g1) * (b[1] \div g2), (a[2] \div g2) * (b[2] \div g1))

RatDiv(a, b) == RatMul(a, Rat(b[2], b[1]))

RatLT(a, b) ==
  LET g == GCD(a[2], b[2])
      l == (a[2] \div g) * b[2]
  IN  a[1] * (l \div a[2]) < b[1] * (l \div b[2])

RatLE(a, b) == ~RatLT(b, a)
RatGE(a, b) == RatLE(b, a)

RECURSIVE ISqrtSearch(_, _, _)
ISqrtSearch(n, lo, hi) ==
  IF lo >= hi THEN lo
  ELSE LET mid == (lo + hi + 1) \div 2
       IN  IF mid * mid <= n THEN ISqrtSearch(n, mid, hi)
           ELSE ISqrtSearch(n, lo, mid - 1)

\* np.sqrt, rounded down to a multiple of 1/100
np_sqrt(a) == Rat(ISqrtSearch((a[1] * 10000) \div a[2], 0, 40000), 100)

\* np.pi
Pi == <<22, 7>>

----------------------------------------------------------------------------
(* Environment.__init__: configuration *)

obs_size == 9
UNDEF == -1
end_cond == <<5, 2>>
target_velocity == <<3, 10>>
vmax == 1
delta_vel == <<3, 10>>
vmin == -2
curvature_forward == RatDiv(I2R(-2 * vmax), RatMul(delta_vel, I2R(vmin)))
vmin_lat == -1
curvature_lateral == 3
vmin_back == <<-4, 5>>
curvature_back == 2
flipping_penalization == -2
flip_threshold == <<139, 500>>
Half == <<1, 2>>

pos_size == Len(dest_pos)

\* row[i] of the source, zero-based
At(row, i) == row[i + 1]

----------------------------------------------------------------------------
(* Environment.__compute_reward_and_end *)

RECURSIVE SumSquares(_, _)
SumSquares(row, k) ==
  IF k = 0 THEN Zero
  ELSE RatAdd(SumSquares(row, k - 1), RatMul(row[k], row[k]))

\* np.sqrt(np.sum(np.square(x[:, 0:pos_size]), axis=1)) for one row
NormOfPosition(row) == np_sqrt(SumSquares(row, pos_size))

dist_fin(next_obs) == [i \in 1..Len(next_obs) |-> NormOfPosition(next_obs[i])]

\* the term with vmax alone in the numerator
forward_velocity_penalty_numerator(v) ==
  RatAdd(RatDiv(I2R(vmax),
                RatAdd(RatMul(curvature_forward,
                              RatAbs(RatSub(target_velocity, v))), One)),
         I2R(vmin))

forward_velocity_penalty(v) ==
  RatAdd(RatDiv(I2R(vmax - vmin),
                RatAdd(RatMul(curvature_forward,
                              RatAbs(RatSub(target_velocity, v))), One)),
         I2R(vmin))

lateral_velocity_penalty(v) ==
  RatAdd(RatDiv(I2R(-vmin_lat),
                RatAdd(RatMul(I2R(curvature_lateral), RatAbs(v)), One)),
         I2R(vmin_lat))

base_reward(row) ==
  RatAdd(forward_velocity_penalty(At(row, 7)),
         lateral_velocity_penalty(At(row, 8)))

flat_back_reward(back_angle) ==
  RatAdd(RatDiv(RatNeg(vmin_back),
                RatAdd(RatMul(I2R(curvature_back), back_angle), One)),
         vmin_back)

\* the accumulator started at the base reward
InitialReward_base(base) == base

\* the reward accumulator before the flat-back loop
InitialReward(base) == Zero

\* the iteration without the test on the sign of the base reward
FlatBackStep_unsigned(row, base, j, r) ==
  LET back_angle == RatMul(RatAbs(At(row, j)), Pi)
      fbr == flat_back_reward(back_angle)
      scaled == RatMul(RatMul(fbr, base), Half)
  IN  RatAdd(RatAdd(r, scaled), fbr)

\* one iteration of the loop "for j in range(5, 7)"
FlatBackStep(row, base, j, r) ==
  LET back_angle == RatMul(RatAbs(At(row, j)), Pi)
      fbr == flat_back_reward(back_angle)
      scaled == RatMul(RatMul(fbr, base), Half)
      r1 == IF RatLT(base, Zero) THEN RatSub(r, scaled) ELSE RatAdd(r, scaled)
  IN  RatAdd(r1, fbr)

RECURSIVE FlatBackLoop(_, _, _, _)
FlatBackLoop(row, base, j, r) ==
  IF j >= 7 THEN r
  ELSE FlatBackLoop(row, base, j + 1, FlatBackStep(row, base, j, r))

\* the flip test of the if statement
Flipped(row) ==
  \/ RatGE(RatAbs(At(row, 5)), flip_threshold)
  \/ RatGE(RatAbs(At(row, 6)), flip_threshold)

\* the distance test written with > instead of >=
Termination_strict(row, dist, r) ==
  IF Flipped(row)
    THEN [reward |-> RatAdd(r, I2R(flipping_penalization)), end |-> TRUE]
    ELSE IF RatLT(end_cond, dist)
      THEN [reward |-> r, end |-> TRUE]
      ELSE [reward |-> r, end |-> FALSE]

\* the penalty applied in both terminating branches
Termination_penalty_on_exit(row, dist, r) ==
  IF Flipped(row)
    THEN [reward |-> RatAdd(r, I2R(flipping_penalization)), end |-> TRUE]
    ELSE IF RatGE(dist, end_cond)
      THEN [reward |-> RatAdd(r, I2R(flipping_penalization)), end |-> TRUE]
      ELSE [reward |-> r, end |-> FALSE]

\* the if / elif / else that ends the body of the row loop
Termination(row, dist, r) ==
  IF Flipped(row)
    THEN [reward |-> RatAdd(r, I2R(flipping_penalization)), end |-> TRUE]
    ELSE IF RatGE(dist, end_cond)
      THEN [reward |-> r, end |-> TRUE]
      ELSE [reward |-> r, end |-> FALSE]

\* the body of "for i in range(obs.shape[0])", with its locals
RowEval(row, dist) ==
  LET fwd == forward_velocity_penalty(At(row, 7))
      lat == lateral_velocity_penalty(At(row, 8))
      base == base_reward(row)
      shaped == FlatBackLoop(row, base, 5, InitialReward(base))
      t == Termination(row, dist, shaped)
  IN  [reward |-> t.reward, end |-> t.end,
       forward_velocity_penalty |-> fwd, lateral_velocity_penalty |-> lat,
       base_reward |-> base, shaped |-> shaped, dist_fin |-> dist]

compute_reward_and_end(obs, next_obs) ==
  LET d == dist_fin(next_obs)
      rows == [i \in 1..Len(obs) |-> RowEval(next_obs[i], d[i])]
  IN  [reward |-> [i \in 1..Len(obs) |-> rows[i].reward],
       end |-> [i \in 1..Len(obs) |-> rows[i].end],
       trace |-> rows]

----------------------------------------------------------------------------
(* Input domains *)

Row(x, y, z, roll, pitch, fwd, lat) ==
  <<x, y, z, Zero, Zero, roll, pitch, fwd, lat>>

ZeroRow == [i \in 1..obs_size |-> Zero]

\* destinations given to the constructor (2 or 3 position components)
Dests == { <<Zero, Zero>>, <<<<3, 2>>, <<2, 1>>>>, <<Zero, Zero, One>> }

EvalPositions ==
  { <<Zero, Zero, Zero>>, <<<<3, 2>>, <<2, 1>>, Zero>>,
    <<<<12, 5>>, Zero, Zero>>, <<<<-3, 1>>, Zero, Zero>>,
    <<<<3, 2>>, Zero, <<2, 1>>>>, <<Zero, <<-12, 5>>, One>> }
EvalAngles == { Zero, <<277, 1000>>, <<-139, 500>>, <<3, 10>> }
EvalForward ==
  { <<3, 10>>, Zero, <<3, 5>>, <<-3, 10>>, <<9, 10>>, <<3, 20>>, <<9, 20>> }
EvalLateral == { Zero, <<-1, 1>>, <<1, 3>> }

EvalRows ==
  { Row(p[1], p[2], p[3], a, b, f, l) :
      p \in EvalPositions, a \in EvalAngles, b \in EvalAngles,
      f \in EvalForward, l \in EvalLateral }

\* the other row of the two-row batches
EvalCompanion ==
  Row(<<3, 1>>, Zero, Zero, <<3, 10>>, <<1, 10>>, <<9, 10>>, One)

\* observations the simulator can report
SimObs ==
  { Row(Zero, Zero, Zero, Zero, Zero, <<3, 10>>, Zero),
    Row(<<3, 1>>, Zero, Zero, Zero, Zero, Zero, One),
    Row(<<3, 2>>, <<2, 1>>, Zero, <<3, 10>>, Zero, <<3, 5>>, Zero),
    Row(<<3, 2>>, Zero, <<2, 1>>, <<1, 10>>, <<-139, 500>>, <<3, 20>>, <<1, 3>>),
    Row(<<1, 2>>, Zero, Zero, <<1, 10>>, Zero, <<3, 10>>, One) }

\* longest sequence given to compute_reward has MaxLen + 1 observations
MaxLen == 3
\* number of array addresses
MaxAddr == 5

----------------------------------------------------------------------------
(* numpy arrays: ndim and the entries along the first axis *)

Addr == 1..MaxAddr
NoArray == [ndim |-> 0, data |-> <<>>]
Array1(row) == [ndim |-> 1, data |-> row]

\* np.zeros((1,) + obs_sp_shape)
InitialObs == [ndim |-> 2, data |-> <<ZeroRow>>]

Min(a, b) == IF a < b THEN a ELSE b

\* a[lo:hi], a slice along the first axis
Slice(a, lo, hi) ==
  [ndim |-> a.ndim, data |-> SubSeq(a.data, lo + 1, Min(hi, Len(a.data)))]

\* a.reshape(1, -1) for a vector or a one-row matrix: the batch of one row
Reshape1(a) == IF a.ndim = 1 THEN <<a.data>> ELSE <<a.data[1]>>

\* a[:] = row, written in place with broadcasting
AssignAll(a, row) ==
  IF a.ndim = 1 THEN [a EXCEPT !.data = row]
  ELSE [a EXCEPT !.data = [i \in 1..Len(a.data) |-> row]]

Live(S) == S \ {0}
Alloc(live) == CHOOSE a \in Addr \ live : \A b \in Addr \ live : a <= b
Collect(h, live) == [a \in Addr |-> IF a \in live THEN h[a] ELSE NoArray]

\* no copy: the array itself is handed out
np_copy_alias(src, live) == src

\* address of the array np.copy(src) returns
np_copy(src, live) == Alloc(live)

\* CoppeliaSocket.reset and CoppeliaSocket.act: the observations they may return
CoppeliaReset(pose) == SimObs
CoppeliaAct(action) == SimObs

----------------------------------------------------------------------------
(* Environment: the calls *)

\* the evaluation act performs for one transition
ActEval(o, n) == compute_reward_and_end(Reshape1(o), Reshape1(n))

\* the two slices exchanged
compute_reward_swapped(obs) ==
  compute_reward_and_end(SubSeq(obs, 2, Len(obs)),
                         SubSeq(obs, 1, Len(obs) - 1)).reward

compute_reward(obs) ==
  compute_reward_and_end(SubSeq(obs, 1, Len(obs) - 1),
                         SubSeq(obs, 2, Len(obs))).reward

max_ret(o) == RatMul(I2R(100), NormOfPosition(Reshape1(o)[1]))

get_pos_value(a) == Slice(a, 0, pos_size)

\* self.__step after reset
StepAfterReset(s) == 0
\* self.__step after act
StepAfterAct(s) == s

EvalIdle ==
  /\ obs_in = <<>> /\ next_in = <<>> /\ reward = <<>> /\ end = <<>>
  /\ trace = <<>>
BatchIdle == batch = <<>> /\ batch_reward = <<>> /\ step_reward = <<>>
EnvIdle ==
  /\ heap = [a \in Addr |-> NoArray] /\ obsRef = 0 /\ step = UNDEF
  /\ simObs = <<>> /\ retRef = 0 /\ retSnap = NoArray /\ nextRef = 0
  /\ out = <<>> /\ lastOp = "init"

evalVars == <<obs_in, next_in, reward, end, trace>>
batchVars == <<batch, batch_reward, step_reward>>
envVars == <<heap, obsRef, step, simObs, retRef, retSnap, nextRef, out, lastOp>>

Init ==
  /\ dest_pos \in Dests
  /\ heap = [a \in Addr |-> IF a = 1 THEN InitialObs ELSE NoArray]
  /\ obsRef = 1
  /\ step = UNDEF
  /\ simObs = <<>>
  /\ retRef = 0 /\ retSnap = NoArray /\ nextRef = 0
  /\ out = <<>> /\ lastOp = "init"
  /\ EvalIdle /\ BatchIdle
  /\ pc = "env"

\* the part reset and set_pos share: take the simulator's array as self.__obs
\* and return a copy of it
TakeAndCopy(o) ==
  LET live == Live({retRef, nextRef})
      a == Alloc(live)
      h1 == [heap EXCEPT ![a] = Array1(o)]
      c == np_copy(a, live \cup {a})
      h2 == [h1 EXCEPT ![c] = h1[a]]
  IN  /\ obsRef' = a
      /\ retRef' = c
      /\ retSnap' = h2[c]
      /\ heap' = Collect(h2, Live({a, c, nextRef}))
      /\ out' = h2[c]
      /\ simObs' = o

Reset ==
  /\ pc = "env"
  /\ \E z_ang \in {<<-1, 1>>, Zero, <<1, 2>>} :
       \E o \in CoppeliaReset(<<Zero, Zero, z_ang>>) :
         /\ step' = StepAfterReset(step)
         /\ TakeAndCopy(o)
  /\ lastOp' = "reset"
  /\ UNCHANGED <<dest_pos, nextRef, evalVars, batchVars, pc>>

SetPos ==
  /\ pc = "env"
  /\ \E pos \in {<<Zero, Zero, Zero>>, <<One, Zero, Half>>} :
       \E o \in CoppeliaReset(pos) : TakeAndCopy(o)
  /\ lastOp' = "set_pos"
  /\ UNCHANGED <<dest_pos, step, nextRef, evalVars, batchVars, pc>>

GetPos ==
  /\ pc = "env"
  /\ out' = get_pos_value(heap[obsRef])
  /\ lastOp' = "get_pos"
  /\ UNCHANGED <<dest_pos, heap, obsRef, step, simObs, retRef, retSnap,
                 nextRef, evalVars, batchVars, pc>>

Act ==
  /\ pc = "env"
  /\ \E action \in {ZeroRow} : \E o \in CoppeliaAct(action) :
       LET live == Live({obsRef, retRef})
           a == Alloc(live)
           h1 == [heap EXCEPT ![a] = Array1(o)]
           r == ActEval(h1[obsRef], h1[a])
           h2 == [h1 EXCEPT ![obsRef] = AssignAll(h1[obsRef], h1[a].data)]
       IN  /\ heap' = Collect(h2, Live({obsRef, retRef, a}))
           /\ nextRef' = a
           /\ out' = [next_obs |-> h2[a], reward |-> r.reward, end |-> r.end]
           /\ simObs' = o
  /\ step' = StepAfterAct(step)
  /\ lastOp' = "act"
  /\ UNCHANGED <<dest_pos, obsRef, retRef, retSnap, evalVars, batchVars, pc>>

MaxRet ==
  /\ pc = "env"
  /\ \E o \in SimObs : out' = [obs |-> o, ret |-> max_ret(Array1(o))]
  /\ lastOp' = "max_ret"
  /\ UNCHANGED <<dest_pos, heap, obsRef, step, simObs, retRef, retSnap,
                 nextRef, evalVars, batchVars, pc>>

Next == Reset \/ SetPos \/ GetPos \/ Act \/ MaxRet

Spec == Init /\ [][Next]_vars

----------------------------------------------------------------------------
(* The evaluator applied to batches of one and two rows *)

InitEval ==
  /\ dest_pos \in Dests
  /\ EnvIdle /\ BatchIdle
  /\ next_in \in {<<r>> : r \in EvalRows}
                  \cup {<<r, EvalCompanion>> : r \in EvalRows}
                  \cup {<<EvalCompanion, r>> : r \in EvalRows}
  /\ obs_in = [i \in 1..Len(next_in) |-> ZeroRow]
  /\ reward = <<>> /\ end = <<>> /\ trace = <<>>
  /\ pc = "ready"

Evaluate ==
  /\ pc = "ready"
  /\ LET r == compute_reward_and_end(obs_in, next_in)
     IN  reward' = r.reward /\ end' = r.end /\ trace' = r.trace
  /\ pc' = "done"
  /\ UNCHANGED <<dest_pos, envVars, batchVars, obs_in, next_in>>

NextEval == Evaluate

SpecEval == InitEval /\ [][NextEval]_vars

----------------------------------------------------------------------------
(* compute_reward on a recorded sequence, against the per-step evaluations *)

RECURSIVE SeqsOfLen(_, _)
SeqsOfLen(S, n) ==
  IF n = 0 THEN {<<>>}
  ELSE {Append(s, x) : s \in SeqsOfLen(S, n - 1), x \in S}

InitBatch ==
  /\ dest_pos \in Dests
  /\ EnvIdle /\ EvalIdle
  /\ \E n \in 1..MaxLen : batch \in SeqsOfLen(SimObs, n + 1)
  /\ batch_reward = <<>> /\ step_reward = <<>>
  /\ pc = "ready"

ComputeReward ==
  /\ pc \in {"ready", "stepped"}
  /\ batch_reward = <<>>
  /\ batch_reward' = compute_reward(batch)
  /\ UNCHANGED <<dest_pos, envVars, evalVars, batch, step_reward, pc>>

\* the caller replays one more transition the way act evaluates it
StepEval ==
  /\ pc \in {"ready", "stepped"}
  /\ Len(step_reward) < Len(batch) - 1
  /\ LET k == Len(step_reward) + 1
         r == ActEval(Array1(batch[k]), Array1(batch[k + 1]))
     IN  step_reward' = Append(step_reward, r.reward[1])
  /\ pc' = "stepped"
  /\ UNCHANGED <<dest_pos, envVars, evalVars, batch, batch_reward>>

NextBatch == ComputeReward \/ StepEval

SpecBatch == InitBatch /\ [][NextBatch]_vars

----------------------------------------------------------------------------
(* Properties *)

Roll(row) == At(row, 5)
Pitch(row) == At(row, 6)
TiltedOver(row) ==
  \/ RatGE(RatAbs(Roll(row)), <<278, 1000>>)
  \/ RatGE(RatAbs(Pitch(row)), <<278, 1000>>)
\* norm of the first P components >= 2.5, stated on the squares
OutOfRange(row) == RatGE(SumSquares(row, Len(dest_pos)), <<625, 100>>)
Evaluated == pc = "done" /\ Len(reward) = Len(next_in)

\* C1: a row is terminated iff |roll| >= 0.278 or |pitch| >= 0.278 or the norm
\* of its first P position components is >= 2.5; a row that satisfies both
\* conditions is handled as a flip (it receives the flip penalty).
C1_TerminationIff ==
  Evaluated =>
    \A i \in 1..Len(next_in) :
      /\ end[i] <=> (TiltedOver(next_in[i]) \/ OutOfRange(next_in[i]))
      /\ (TiltedOver(next_in[i]) /\ OutOfRange(next_in[i]))
           => reward[i] = RatAdd(trace[i].shaped, <<-2, 1>>)

C1_Witness ==
  /\ Evaluated
  /\ TiltedOver(next_in[1]) /\ OutOfRange(next_in[1])
  /\ end[1]
  /\ reward[1] = RatAdd(trace[1].shaped, <<-2, 1>>)

\* C2: the flip penalty -2 is added to a row's reward exactly when
\* |roll| >= 0.278 or |pitch| >= 0.278, and once; a row terminated only by the
\* distance condition gets the reward it would get at the origin, unterminated.
C2_FlipPenaltyOnce ==
  Evaluated =>
    \A i \in 1..Len(next_in) :
      LET row == next_in[i]
          home == [k \in 1..Len(row) |-> IF k <= Len(dest_pos) THEN Zero ELSE row[k]]
      IN  /\ TiltedOver(row) => reward[i] = RatAdd(trace[i].shaped, <<-2, 1>>)
          /\ ~TiltedOver(row) => reward[i] = trace[i].shaped
          /\ trace[i].shaped = RowEval(home, Zero).shaped
          /\ (~TiltedOver(row) /\ OutOfRange(row))
               => /\ end[i]
                  /\ ~RowEval(home, Zero).end
                  /\ reward[i] = RowEval(home, Zero).reward

C2_Witness ==
  /\ Evaluated
  /\ ~TiltedOver(next_in[1]) /\ OutOfRange(next_in[1])
  /\ end[1]
  /\ reward[1] = trace[1].shaped
  /\ reward[1] # Zero

AtTargetFlatHome(row) ==
  /\ At(row, 7) = <<3, 10>> /\ At(row, 8) = Zero
  /\ Roll(row) = Zero /\ Pitch(row) = Zero
  /\ \A k \in 1..Len(dest_pos) : row[k] = Zero

Deviation(v) == RatAbs(RatSub(<<3, 10>>, v))

\* C8: the forward-velocity term is vmax = 1 at the target velocity, lies in
\* [vmin, vmax] = [-2, 1], is symmetric around the target and strictly
\* decreasing in the absolute deviation from the target.
C8_ForwardTerm ==
  Evaluated =>
    \A i \in 1..Len(next_in) :
      LET v == At(next_in[i], 7)
          f == trace[i].forward_velocity_penalty
      IN  /\ v = <<3, 10>> => f = One
          /\ RatLE(<<-2, 1>>, f) /\ RatLE(f, One)
          /\ \A w \in EvalForward :
               /\ Deviation(w) = Deviation(v)
                    => forward_velocity_penalty(w) = f
               /\ RatLT(Deviation(v), Deviation(w))
                    => RatLT(forward_velocity_penalty(w), f)

C8_Witness ==
  /\ Evaluated
  /\ At(next_in[1], 7) = <<3, 5>>
  /\ trace[1].forward_velocity_penalty = <<-1, 2>>
  /\ forward_velocity_penalty(Zero) = <<-1, 2>>
  /\ forward_velocity_penalty(<<3, 10>>) = One

FlatOf(x) == flat_back_reward(RatMul(RatAbs(x), Pi))
\* the flatness term plus the base reward scaled by it, for one angle
Coupled(x, base) ==
  RatSub(FlatOf(x), RatAbs(RatMul(RatMul(FlatOf(x), base), Half)))

C4_BatchMatchesSteps ==
  batch_reward # <<>> =>
    /\ Len(batch_reward) = Len(batch) - 1
    /\ \A k \in 1..Len(step_reward) : batch_reward[k] = step_reward[k]

C4_Witness ==
  /\ batch_reward # <<>>
  /\ Len(batch) >= 3
  /\ Len(step_reward) = Len(batch) - 1
  /\ batch_reward = step_reward
  /\ batch_reward[1] # batch_reward[2]

\* C5 as stated: reset leaves the step counter at 0, every act advances it,
\* and after each reset / set_pos / act the stored observation equals the
\* observation the simulator returned last.
C5_Original ==
  [][ /\ lastOp' = "reset" => step' = 0
      /\ lastOp' = "act" => (step' # UNDEF /\ step' > step)
      /\ lastOp' \in {"reset", "set_pos", "act"}
           => Reshape1(heap'[obsRef']) = <<simObs'>> ]_vars

\* C6: the array reset (or set_pos) returned keeps its value whatever act does
\* afterwards to the internal observation: it is a copy, not an alias.
C6_ReturnedCopyKept ==
  retRef # 0 => heap[retRef] = retSnap

C6_Witness ==
  /\ retRef # 0
  /\ lastOp = "act"
  /\ heap[retRef] = retSnap
  /\ heap[obsRef].data # retSnap.data

\* C7 as stated: in every reachable state, also before the first reset,
\* get_pos returns the first P components of the last observation.
C7_Original ==
  lastOp = "get_pos" =>
    out = Array1(SubSeq(Reshape1(heap[obsRef])[1], 1, Len(dest_pos)))

RECURSIVE SumSquaredDiff(_, _, _)
SumSquaredDiff(row, d, k) ==
  IF k = 0 THEN Zero
  ELSE RatAdd(SumSquaredDiff(row, d, k - 1),
              RatMul(RatSub(row[k], d[k]), RatSub(row[k], d[k])))

\* C9 as stated: max_ret is 100 times the distance between the position of
\* the observation and the destination fixed at construction.
C9_Original ==
  lastOp = "max_ret" =>
    out.ret = RatMul(<<100, 1>>,
                     np_sqrt(SumSquaredDiff(out.obs, dest_pos, Len(dest_pos))))

====
